---- MODULE Spec2Model ----
(***************************************************************************)
(* Model of qgh (src/main.go, first program text, lines 1-1420): the       *)
(* Bubble Tea model, its Update reducer, the filter pipeline and the        *)
(* mnemonic matcher.                                                        *)
(*                                                                          *)
(* Strings are sequences of one-character strings, so that indexing,        *)
(* lowercasing, substring search and tokenizing are computed as the Go      *)
(* code computes them.                                                      *)
(***************************************************************************)
EXTENDS Integers, Sequences, FiniteSets, TLC

(***************************************************************************)
(* Bounds of the model                                                      *)
(***************************************************************************)
\* longest search text the user types
MaxSearchLen == 2
\* characters the user types into the search box
TypedChars == {"x"}
\* terminal heights delivered by WindowSizeMsg (24 is the startup default)
Heights == {0, 14, 24}

(***************************************************************************)
(* strings                                                                  *)
(***************************************************************************)
LowerLetters == <<"a","b","c","d","e","f","g","h","i","j","k","l","m",
                  "n","o","p","q","r","s","t","u","v","w","x","y","z">>
UpperLetters == <<"A","B","C","D","E","F","G","H","I","J","K","L","M",
                  "N","O","P","Q","R","S","T","U","V","W","X","Y","Z">>
LowerSet == {LowerLetters[i] : i \in DOMAIN LowerLetters}
UpperSet == {UpperLetters[i] : i \in DOMAIN UpperLetters}
Digits == {"0","1","2","3","4","5","6","7","8","9"}

\* r >= 'a' && r <= 'z'
IsLower(c) == c \in LowerSet
\* r >= 'A' && r <= 'Z'
IsUpper(c) == c \in UpperSet
IsAlnum(c) == IsLower(c) \/ IsUpper(c) \/ c \in Digits

\* the lowercase letter of each uppercase letter
LowerOf ==
    [c \in UpperSet |->
        LowerLetters[CHOOSE i \in DOMAIN UpperLetters : UpperLetters[i] = c]]

\* strings.ToLower on one character
ToLowerChar(c) == IF IsUpper(c) THEN LowerOf[c] ELSE c

\* strings.ToLower
ToLower(s) == [i \in DOMAIN s |-> ToLowerChar(s[i])]

\* strings.Contains
Contains(s, sub) ==
    \E i \in 0..(Len(s) - Len(sub)) :
        \A j \in 1..Len(sub) : s[i + j] = sub[j]

\* a slip: only the delimiters break words, not a lower-to-upper step
isWordBoundaryDelimiters(text, pos) ==
    IF pos = 0 THEN TRUE
    ELSE IF pos >= Len(text) THEN FALSE
    ELSE text[pos] \in {"-", "_", "/", "\\", "."}

\* isWordBoundary(text, pos), pos counted from 0 as in the Go code
isWordBoundary(text, pos) ==
    IF pos = 0 THEN TRUE
    ELSE IF pos >= Len(text) THEN FALSE
    ELSE LET current == text[pos + 1]
             prev    == text[pos]
         IN  IF prev \in {"-", "_", "/", "\\", "."} THEN TRUE
             ELSE IsLower(prev) /\ IsUpper(current)

\* the loop of extractWords from position pos (0-based) on, with the words
\* finished so far and the word under construction
RECURSIVE extractFrom(_, _, _, _)
extractFrom(text, pos, words, currentWord) ==
    IF pos >= Len(text)
    THEN IF Len(currentWord) > 0 THEN Append(words, currentWord) ELSE words
    ELSE LET flush == isWordBoundary(text, pos) /\ Len(currentWord) > 0
             w1    == IF flush THEN Append(words, currentWord) ELSE words
             c1    == IF flush THEN <<>> ELSE currentWord
             r     == text[pos + 1]
             c2    == IF IsAlnum(r) THEN Append(c1, r) ELSE c1
         IN  extractFrom(text, pos + 1, w1, c2)

extractWords(text) == extractFrom(text, 0, <<>>, <<>>)

\* a slip: the first letters are compared as written, case included
RECURSIVE mnemonicFromCased(_, _, _, _)
mnemonicFromCased(words, k, query, queryIndex) ==
    IF k > Len(words) \/ queryIndex >= Len(query)
    THEN queryIndex
    ELSE LET word == words[k]
             hit  == Len(word) > 0 /\ word[1] = query[queryIndex + 1]
         IN  mnemonicFromCased(words, k + 1, query,
                               IF hit THEN queryIndex + 1 ELSE queryIndex)

\* the loop of matchesMnemonic over the words from index k on
RECURSIVE mnemonicFrom(_, _, _, _)
mnemonicFrom(words, k, query, queryIndex) ==
    IF k > Len(words) \/ queryIndex >= Len(query)
    THEN queryIndex
    ELSE LET word == words[k]
             hit  == Len(word) > 0
                     /\ ToLowerChar(word[1]) = ToLowerChar(query[queryIndex + 1])
         IN  mnemonicFrom(words, k + 1, query,
                          IF hit THEN queryIndex + 1 ELSE queryIndex)

\* a slip: the query is matched against the leading words only, none skipped
matchesMnemonicLeading(text, query) ==
    IF Len(query) = 0 THEN TRUE
    ELSE LET words == extractWords(text)
         IN  /\ Len(words) >= Len(query)
             /\ \A i \in DOMAIN query :
                    ToLowerChar(words[i][1]) = ToLowerChar(query[i])

matchesMnemonic(text, query) ==
    IF Len(query) = 0 THEN TRUE
    ELSE mnemonicFrom(extractWords(text), 1, query, 0) = Len(query)

(***************************************************************************)
(* data: repositories, pull requests, caches                                *)
(***************************************************************************)
\* sentinels of convertToGitHubURL
NA        == <<"N","/","A">>
NonGitHub == <<"N","o","n","-","G","i","t","H","u","b">>

URLxa  == <<"h","t","t","p","s",":","/","/","g","i","t","h","u","b",".",
            "c","o","m","/","o","/","x","a">>
URLfar == <<"h","t","t","p","s",":","/","/","g","i","t","h","u","b",".",
            "c","o","m","/","o","/","q">>

\* type GitRepo
GitRepo(dir, origin, url) ==
    [Directory |-> dir, Origin |-> origin, GitHubURL |-> url,
     PRCount |-> 0, MatchingPRs |-> <<>>]

\* type PR
PR(n, title, repoURL) ==
    [Number |-> n, Title |-> title, URL |-> Append(repoURL, "#"),
     RepoURL |-> repoURL]

RepoXa == GitRepo(<<"/","w","/","x","a">>, URLxa, URLxa)
RepoXY == GitRepo(<<"/","w","/","x","-","x","y">>, NA, NA)
RepoYz == GitRepo(<<"/","w","/","y","z">>, <<"g","l">>, NonGitHub)

\* what findGitRepositories returns for the working directory
DiscoveredRepos == <<RepoXa, RepoXY, RepoYz>>
\* what getCurrentRepoInfo can return when the working directory is the repository
CurrentRepos == {RepoXa, RepoXY}
\* the optional positional search string of the command line
InitialSearches == {<<>>, <<"x">>}

PR1 == PR(1, <<"F","i","x"," ","y">>, URLxa)
PR2 == PR(2, <<"x","-","y">>, URLxa)
PR3 == PR(3, <<"y","a","k">>, URLfar)

\* a slip: the pull requests are not told apart by repository
PRsOfAny(prs, url) == prs

\* the loop at the end of loadAllUserPRs: group the pull requests by repository
PRsOf(prs, url) == SelectSeq(prs, LAMBDA p : p.RepoURL = url)

\* type PRCache, as loadAllUserPRs builds it
PRCache(prs) ==
    [allPRs    |-> prs,
     prsByRepo |-> [u \in {prs[i].RepoURL : i \in DOMAIN prs} |-> PRsOf(prs, u)],
     loaded    |-> TRUE]

\* results loadAllUserPRs can deliver without error
UserPRLists == {<<>>, <<PR1, PR2, PR3>>}
\* results getRepositoryPRs can deliver without error
RepoPRLists == {<<>>, <<PR1, PR2>>}

\* err.Error() of a failed fetch
FetchError == "failed to get PRs"

(***************************************************************************)
(* state                                                                    *)
(***************************************************************************)
VARIABLES
    \* fields of type model
    repos, filteredRepos, searchInput, cursor, prCache,
    currentView, selectedRepo, repoDetails, detailCursor, loadingPRs,
    prLoadError, startedInDetailView, terminalHeight, scrollOffset,
    detailScrollOffset, prMode,
    \* the Bubble Tea runtime and the outside world
    quit,          \* tea.Quit has been returned
    pendingCache,  \* a loadPRCacheCmd is running
    pendingFetch,  \* repository URLs of the loadPRsCmd commands running
    pendingCd,     \* paths of the changeDirMsg messages not yet handled (a
                   \* set: the first one handled ends the program)
    cdFile,        \* what has been written to /tmp/qgh_cd, in order
    opened,        \* URLs handed to openURL by the last event
    entry,         \* how the detail view on screen was entered
    last,          \* the last event handled, and the state it met
    probe          \* a call of a function made on its own: its arguments
                   \* and its result (nil in the running program)

modelVars == <<repos, filteredRepos, searchInput, cursor, prCache,
               currentView, selectedRepo, repoDetails, detailCursor,
               loadingPRs, prLoadError, startedInDetailView, terminalHeight,
               scrollOffset, detailScrollOffset, prMode>>
worldVars == <<quit, pendingCache, pendingFetch, pendingCd, cdFile>>
vars == <<modelVars, worldVars, opened, entry, last, probe>>

listView   == "listView"
detailView == "detailView"

\* a pointer or a nil-able value is a sequence of length 0 (nil) or 1
Nil == <<>>
Ptr(x) == <<x>>
Deref(p) == p[1]

(***************************************************************************)
(* the filter pipeline                                                      *)
(***************************************************************************)
\* m.prCache != nil && m.prCache.loaded
CacheLoaded(cache) == cache # Nil /\ Deref(cache).loaded

\* m.prCache.prsByRepo[url]: a missing key reads as the empty list
CachedPRs(cache, url) ==
    IF url \in DOMAIN Deref(cache).prsByRepo
    THEN Deref(cache).prsByRepo[url]
    ELSE <<>>

\* a slip: the count is not refreshed from the cache
RepoCopyStale(repo, cache) == [repo EXCEPT !.MatchingPRs = <<>>]

\* repoCopy of filterRepos: MatchingPRs cleared, PRCount from the loaded cache
RepoCopy(repo, cache) ==
    [repo EXCEPT !.MatchingPRs = <<>>,
                 !.PRCount = IF CacheLoaded(cache)
                             THEN Len(CachedPRs(cache, repo.GitHubURL))
                             ELSE repo.PRCount]

\* a slip: only the directory is matched, not the URL
LocalMatchDirOnly(repo, search) ==
    LET searchLower == ToLower(search)
        dirLower    == ToLower(repo.Directory)
    IN  \/ Contains(dirLower, searchLower)
        \/ matchesMnemonic(dirLower, searchLower)

\* the condition of the normal-mode loop of filterRepos
LocalMatch(repo, search) ==
    LET searchLower == ToLower(search)
        dirLower    == ToLower(repo.Directory)
        urlLower    == ToLower(repo.GitHubURL)
    IN  \/ Contains(dirLower, searchLower)
        \/ Contains(urlLower, searchLower)
        \/ matchesMnemonic(dirLower, searchLower)
        \/ matchesMnemonic(urlLower, searchLower)

\* a slip: titles are matched by substring only
matchingPRsSubstring(cache, search) ==
    LET searchLower == ToLower(search)
    IN  SelectSeq(Deref(cache).allPRs,
                  LAMBDA pr : Contains(ToLower(pr.Title), searchLower))

\* the first loop of filterReposByPRs: the cached pull requests whose title
\* matches
matchingPRs(cache, search) ==
    LET searchLower == ToLower(search)
    IN  SelectSeq(Deref(cache).allPRs,
                  LAMBDA pr : \/ Contains(ToLower(pr.Title), searchLower)
                              \/ matchesMnemonic(ToLower(pr.Title), searchLower))

\* a slip: with the cache not loaded the list is left whole
filterReposByPRsStale(rs, cache, search) ==
    IF ~CacheLoaded(cache) THEN rs
    ELSE LET matching == matchingPRs(cache, search)
             grouped(url) == PRsOf(matching, url)
             keep(repo) == /\ repo.GitHubURL # NA
                           /\ repo.GitHubURL # NonGitHub
                           /\ grouped(repo.GitHubURL) # <<>>
             withPRs(repo) ==
                 [repo EXCEPT !.MatchingPRs = grouped(repo.GitHubURL),
                              !.PRCount = Len(CachedPRs(cache, repo.GitHubURL))]
             kept == SelectSeq(rs, keep)
         IN  [i \in DOMAIN kept |-> withPRs(kept[i])]

\* filterReposByPRs: the value it leaves in m.filteredRepos
filterReposByPRs(rs, cache, search) ==
    IF ~CacheLoaded(cache) THEN <<>>
    ELSE LET matching == matchingPRs(cache, search)
             grouped(url) == PRsOf(matching, url)
             keep(repo) == /\ repo.GitHubURL # NA
                           /\ repo.GitHubURL # NonGitHub
                           /\ grouped(repo.GitHubURL) # <<>>
             withPRs(repo) ==
                 [repo EXCEPT !.MatchingPRs = grouped(repo.GitHubURL),
                              !.PRCount = Len(CachedPRs(cache, repo.GitHubURL))]
             kept == SelectSeq(rs, keep)
         IN  [i \in DOMAIN kept |-> withPRs(kept[i])]

\* a slip: the copies are collected in reverse order, unfiltered
filterResultReversed(rs, cache, search, pr) ==
    [i \in DOMAIN rs |-> RepoCopy(rs[Len(rs) + 1 - i], cache)]

\* filterRepos: the value it leaves in m.filteredRepos
filterResult(rs, cache, search, pr) ==
    IF search = <<>>
    THEN [i \in DOMAIN rs |-> RepoCopy(rs[i], cache)]
    ELSE IF pr
    THEN filterReposByPRs(rs, cache, search)
    ELSE LET filtered == SelectSeq(rs, LAMBDA r : LocalMatch(r, search))
         IN  [i \in DOMAIN filtered |-> RepoCopy(filtered[i], cache)]

\* the end of filterRepos: the cursor clamped into the new list
clampCursor(c, n) ==
    LET c1 == IF c >= n THEN n - 1 ELSE c
    IN  IF c1 < 0 THEN 0 ELSE c1

\* a slip: an input of the filter changes and the filter is not run
filterReposSkipped(cache, search, pr) ==
    UNCHANGED <<filteredRepos, cursor, scrollOffset>>

\* filterRepos on the state with the given (already updated) inputs
filterRepos(cache, search, pr) ==
    /\ filteredRepos' = filterResult(repos, cache, search, pr)
    /\ cursor' = clampCursor(cursor, Len(filterResult(repos, cache, search, pr)))
    /\ scrollOffset' = 0

(***************************************************************************)
(* the scroll window                                                        *)
(***************************************************************************)
\* reserved lines of the list view: m.terminalHeight - 10 - 2
ListChrome == 12
\* reserved lines of the detail view: m.terminalHeight - 11 - 2
DetailChrome == 13

\* visibleHeight of updateListView
listVisibleHeight(h) == IF h - ListChrome < 1 THEN 1 ELSE h - ListChrome
\* visibleHeight of updateDetailView
detailVisibleHeight(h) == IF h - DetailChrome < 1 THEN 1 ELSE h - DetailChrome

\* a slip: the renderer does not floor its capacity
renderListVisibleHeightRaw(h) == h - 10 - 2

\* visibleHeight of renderListView: baseOverhead 10, scrollIndicatorLines 2
renderListVisibleHeight(h) == IF h - 10 - 2 < 1 THEN 1 ELSE h - 10 - 2
\* visibleHeight of renderDetailView
renderDetailVisibleHeight(h) == IF h - 11 - 2 < 1 THEN 1 ELSE h - 11 - 2

\* a slip: the offset is not pulled up to the cursor
scrollUpStuck(c, off) == off

\* "Scroll up if cursor goes above visible area"
scrollUp(c, off) == IF c < off THEN c ELSE off
\* a slip: the window is recentred on the cursor instead of following it
scrollDownToCursor(c, off, vh) == IF c >= off + vh THEN c ELSE off

\* "Scroll down if cursor goes below visible area"
scrollDown(c, off, vh) == IF c >= off + vh THEN c - vh + 1 ELSE off

\* a slip: one row too many is counted
maxItemsOneMore(details) == 2 + Len(details)

\* maxItems of updateDetailView: the URL row and the pull-request rows
maxItems(details) == 1 + Len(details)

(***************************************************************************)
(* initial states: the two model literals of main, then model.Init          *)
(***************************************************************************)
Event(name) ==
    [ev |-> name, view |-> currentView, prMode |-> prMode, entry |-> entry]

\* main, lines 916-940, and Init, lines 116-118
InitList ==
    \E flag \in BOOLEAN, initialSearch \in InitialSearches :
        LET filterNow == initialSearch # <<>> /\ ~flag
        IN  /\ repos = DiscoveredRepos
            /\ filteredRepos = IF filterNow
                               THEN filterResult(DiscoveredRepos, Nil,
                                                 initialSearch, flag)
                               ELSE DiscoveredRepos
            /\ searchInput = initialSearch
            /\ cursor = 0
            /\ prCache = Nil
            /\ currentView = listView
            /\ selectedRepo = Nil
            /\ repoDetails = <<>>
            /\ detailCursor = 0
            /\ loadingPRs = FALSE
            /\ prLoadError = ""
            /\ startedInDetailView = FALSE
            /\ terminalHeight = 24
            /\ scrollOffset = 0
            /\ detailScrollOffset = 0
            /\ prMode = flag
            /\ pendingCache = TRUE
            /\ pendingFetch = <<>>

\* a slip: Init issues no fetch for the repository of the detail view
InitDetailNoFetch ==
    \E flag \in BOOLEAN, currentRepo \in CurrentRepos :
        /\ repos = <<currentRepo>>
        /\ filteredRepos = <<currentRepo>>
        /\ searchInput = <<>>
        /\ cursor = 0
        /\ prCache = Nil
        /\ currentView = detailView
        /\ selectedRepo = Ptr(currentRepo)
        /\ repoDetails = <<>>
        /\ detailCursor = 0
        /\ loadingPRs = TRUE
        /\ prLoadError = ""
        /\ startedInDetailView = TRUE
        /\ terminalHeight = 24
        /\ scrollOffset = 0
        /\ detailScrollOffset = 0
        /\ prMode = flag
        /\ pendingCache = FALSE
        /\ pendingFetch = <<>>

\* main, lines 881-900, and Init, lines 120-122
InitDetail ==
    \E flag \in BOOLEAN, currentRepo \in CurrentRepos :
        /\ repos = <<currentRepo>>
        /\ filteredRepos = <<currentRepo>>
        /\ searchInput = <<>>
        /\ cursor = 0
        /\ prCache = Nil
        /\ currentView = detailView
        /\ selectedRepo = Ptr(currentRepo)
        /\ repoDetails = <<>>
        /\ detailCursor = 0
        /\ loadingPRs = TRUE
        /\ prLoadError = ""
        /\ startedInDetailView = TRUE
        /\ terminalHeight = 24
        /\ scrollOffset = 0
        /\ detailScrollOffset = 0
        /\ prMode = flag
        /\ pendingCache = FALSE
        /\ pendingFetch = <<currentRepo.GitHubURL>>

Init ==
    /\ InitList \/ InitDetail
    /\ quit = FALSE
    /\ pendingCd = {}
    /\ cdFile = <<>>
    /\ opened = <<>>
    /\ entry = IF currentView = detailView THEN "initial" ELSE "none"
    /\ last = [ev |-> "init", view |-> currentView, prMode |-> prMode,
               entry |-> entry]
    /\ probe = Nil

(***************************************************************************)
(* Update: messages other than keys                                         *)
(***************************************************************************)
\* every event handled sets last, opened and entry
Handled(name, urls, newEntry) ==
    /\ ~quit
    /\ last' = Event(name)
    /\ opened' = urls
    /\ entry' = newEntry
    /\ UNCHANGED probe

\* case tea.WindowSizeMsg
WindowSizeMsg ==
    \E h \in Heights :
        /\ Handled("resize", <<>>, entry)
        /\ terminalHeight' = h
        /\ UNCHANGED <<repos, filteredRepos, searchInput, cursor, prCache,
                       currentView, selectedRepo, repoDetails, detailCursor,
                       loadingPRs, prLoadError, startedInDetailView,
                       scrollOffset, detailScrollOffset, prMode>>
        /\ UNCHANGED worldVars

\* a slip: the counts of the loaded cache are written into m.repos itself
prCacheLoadedMsgInPlace ==
    /\ pendingCache
    /\ \E failed \in BOOLEAN, prs \in UserPRLists :
        LET cache == IF failed THEN Ptr(PRCache(<<>>)) ELSE Ptr(PRCache(prs))
        IN  /\ Handled(IF failed THEN "cacheFailed" ELSE "cacheLoaded", <<>>,
                       entry)
            /\ prCache' = cache
            /\ repos' = [i \in DOMAIN repos |-> RepoCopy(repos[i], cache)]
            /\ filterRepos(cache, searchInput, prMode)
    /\ pendingCache' = FALSE
    /\ UNCHANGED <<searchInput, currentView, selectedRepo,
                   repoDetails, detailCursor, loadingPRs, prLoadError,
                   startedInDetailView, terminalHeight, detailScrollOffset,
                   prMode>>
    /\ UNCHANGED <<quit, pendingFetch, pendingCd, cdFile>>

\* a slip: a failed load leaves the cache as it was and is tried again
prCacheLoadedMsgRetry ==
    /\ pendingCache
    /\ \E failed \in BOOLEAN, prs \in UserPRLists :
        LET cache == IF failed THEN prCache ELSE Ptr(PRCache(prs))
        IN  /\ Handled(IF failed THEN "cacheFailed" ELSE "cacheLoaded", <<>>,
                       entry)
            /\ prCache' = cache
            /\ filterRepos(cache, searchInput, prMode)
            /\ pendingCache' = failed
    /\ UNCHANGED <<repos, searchInput, currentView, selectedRepo,
                   repoDetails, detailCursor, loadingPRs, prLoadError,
                   startedInDetailView, terminalHeight, detailScrollOffset,
                   prMode>>
    /\ UNCHANGED <<quit, pendingFetch, pendingCd, cdFile>>

\* case prCacheLoadedMsg: loadAllUserPRs fails (msg.err != nil) or returns a
\* loaded cache
prCacheLoadedMsg ==
    /\ pendingCache
    /\ \E failed \in BOOLEAN, prs \in UserPRLists :
        LET cache == IF failed THEN Ptr(PRCache(<<>>)) ELSE Ptr(PRCache(prs))
        IN  /\ Handled(IF failed THEN "cacheFailed" ELSE "cacheLoaded", <<>>,
                       entry)
            /\ prCache' = cache
            /\ filterRepos(cache, searchInput, prMode)
    /\ pendingCache' = FALSE
    /\ UNCHANGED <<repos, searchInput, currentView, selectedRepo,
                   repoDetails, detailCursor, loadingPRs, prLoadError,
                   startedInDetailView, terminalHeight, detailScrollOffset,
                   prMode>>
    /\ UNCHANGED <<quit, pendingFetch, pendingCd, cdFile>>

\* what getRepositoryPRs(url) can return: an error, or a list
FetchOutcomes(url) ==
    {[err |-> FetchError, prs |-> <<>>]} \cup
    (IF url \in {NA, NonGitHub} THEN {}
     ELSE {[err |-> "", prs |-> l] : l \in RepoPRLists})

RemoveAt(s, i) == [j \in 1..(Len(s) - 1) |-> IF j < i THEN s[j] ELSE s[j + 1]]

\* a slip: a failed fetch leaves the loading flag set
prLoadedMsgStillLoading ==
    \E i \in DOMAIN pendingFetch :
        \E msg \in FetchOutcomes(pendingFetch[i]) :
            /\ Handled(IF msg.err # "" THEN "fetchFailed" ELSE "fetchLoaded",
                       <<>>, entry)
            /\ IF msg.err # ""
               THEN /\ prLoadError' = msg.err
                    /\ UNCHANGED <<repoDetails, loadingPRs>>
               ELSE /\ repoDetails' = msg.prs
                    /\ prLoadError' = ""
                    /\ loadingPRs' = FALSE
            /\ pendingFetch' = RemoveAt(pendingFetch, i)
            /\ UNCHANGED <<repos, filteredRepos, searchInput, cursor, prCache,
                           currentView, selectedRepo, detailCursor,
                           startedInDetailView, terminalHeight, scrollOffset,
                           detailScrollOffset, prMode>>
            /\ UNCHANGED <<quit, pendingCache, pendingCd, cdFile>>

\* case prLoadedMsg
prLoadedMsg ==
    \E i \in DOMAIN pendingFetch :
        \E msg \in FetchOutcomes(pendingFetch[i]) :
            /\ Handled(IF msg.err # "" THEN "fetchFailed" ELSE "fetchLoaded",
                       <<>>, entry)
            /\ loadingPRs' = FALSE
            /\ IF msg.err # ""
               THEN /\ prLoadError' = msg.err
                    /\ UNCHANGED repoDetails
               ELSE /\ repoDetails' = msg.prs
                    /\ prLoadError' = ""
            /\ pendingFetch' = RemoveAt(pendingFetch, i)
            /\ UNCHANGED <<repos, filteredRepos, searchInput, cursor, prCache,
                           currentView, selectedRepo, detailCursor,
                           startedInDetailView, terminalHeight, scrollOffset,
                           detailScrollOffset, prMode>>
            /\ UNCHANGED <<quit, pendingCache, pendingCd, cdFile>>

\* case changeDirMsg
changeDirMsg ==
    \E path \in pendingCd :
        /\ Handled("changeDir", <<>>, entry)
        /\ cdFile' = Append(cdFile, path)
        /\ pendingCd' = pendingCd \ {path}
        /\ quit' = TRUE
        /\ UNCHANGED modelVars
        /\ UNCHANGED <<pendingCache, pendingFetch>>

(***************************************************************************)
(* updateListView: one action per case of the switch                        *)
(***************************************************************************)
InList == currentView = listView
detailFields == <<selectedRepo, repoDetails, detailCursor, detailScrollOffset,
                  loadingPRs, prLoadError>>
fixedFields == <<repos, startedInDetailView, terminalHeight>>

\* case "ctrl+c"
ListCtrlC ==
    /\ InList
    /\ Handled("ctrl+c", <<>>, entry)
    /\ quit' = TRUE
    /\ UNCHANGED modelVars
    /\ UNCHANGED <<pendingCache, pendingFetch, pendingCd, cdFile>>

\* case "ctrl+d"
ListCtrlD ==
    /\ InList
    /\ Handled("ctrl+d", <<>>, entry)
    /\ IF Len(filteredRepos) > 0
       THEN pendingCd' = pendingCd \cup {filteredRepos[cursor + 1].Directory}
       ELSE UNCHANGED pendingCd
    /\ UNCHANGED modelVars
    /\ UNCHANGED <<quit, pendingCache, pendingFetch, cdFile>>

\* a slip: the key toggles the mode
ctrlPToggle(old) == ~old

\* the mode the "ctrl+p" case leaves in m.prMode
ctrlPMode(old) == TRUE

\* case "ctrl+p"
ListCtrlP ==
    /\ InList
    /\ Handled("ctrl+p", <<>>, entry)
    /\ prMode' = ctrlPMode(prMode)
    /\ searchInput' = <<>>
    /\ filterRepos(prCache, <<>>, ctrlPMode(prMode))
    /\ UNCHANGED <<prCache, currentView>>
    /\ UNCHANGED detailFields
    /\ UNCHANGED fixedFields
    /\ UNCHANGED worldVars

\* case "up"
ListUp ==
    /\ InList
    /\ Handled("up", <<>>, entry)
    /\ IF cursor > 0
       THEN /\ cursor' = cursor - 1
            /\ scrollOffset' = scrollUp(cursor - 1, scrollOffset)
       ELSE UNCHANGED <<cursor, scrollOffset>>
    /\ UNCHANGED <<filteredRepos, searchInput, prCache, currentView, prMode>>
    /\ UNCHANGED detailFields
    /\ UNCHANGED fixedFields
    /\ UNCHANGED worldVars

\* case "down"
ListDown ==
    /\ InList
    /\ Handled("down", <<>>, entry)
    /\ IF cursor < Len(filteredRepos) - 1
       THEN /\ cursor' = cursor + 1
            /\ scrollOffset' = scrollDown(cursor + 1, scrollOffset,
                                          listVisibleHeight(terminalHeight))
       ELSE UNCHANGED <<cursor, scrollOffset>>
    /\ UNCHANGED <<filteredRepos, searchInput, prCache, currentView, prMode>>
    /\ UNCHANGED detailFields
    /\ UNCHANGED fixedFields
    /\ UNCHANGED worldVars

\* the cursor the "pgup" case leaves
pgUpCursor(c, vh) == IF c - vh < 0 THEN 0 ELSE c - vh

\* case "pgup"
ListPgUp ==
    /\ InList
    /\ Handled("pgup", <<>>, entry)
    /\ LET c == pgUpCursor(cursor, listVisibleHeight(terminalHeight))
       IN  /\ cursor' = c
           /\ scrollOffset' = scrollUp(c, scrollOffset)
    /\ UNCHANGED <<filteredRepos, searchInput, prCache, currentView, prMode>>
    /\ UNCHANGED detailFields
    /\ UNCHANGED fixedFields
    /\ UNCHANGED worldVars

\* a slip: the jump is not clamped to the last row
pgDownCursorUnclamped(c, vh, n) == c + vh

\* the cursor the "pgdown" case leaves in a list of n items
pgDownCursor(c, vh, n) == IF c + vh >= n THEN n - 1 ELSE c + vh

\* case "pgdown"
ListPgDown ==
    /\ InList
    /\ Handled("pgdown", <<>>, entry)
    /\ LET vh == listVisibleHeight(terminalHeight)
           c  == pgDownCursor(cursor, vh, Len(filteredRepos))
       IN  /\ cursor' = c
           /\ scrollOffset' = scrollDown(c, scrollOffset, vh)
    /\ UNCHANGED <<filteredRepos, searchInput, prCache, currentView, prMode>>
    /\ UNCHANGED detailFields
    /\ UNCHANGED fixedFields
    /\ UNCHANGED worldVars

\* a slip: the cache is not consulted
enterDetailsEmpty(cache, repo) == <<>>

\* the pull requests the "enter" case puts in m.repoDetails
enterDetails(cache, repo) ==
    IF CacheLoaded(cache) THEN CachedPRs(cache, repo.GitHubURL) ELSE <<>>

\* a slip: the detail view is entered without recording the selection
ListEnterNoSelection ==
    /\ InList
    /\ Handled("enter", <<>>,
               IF Len(filteredRepos) > 0 THEN "enter" ELSE entry)
    /\ IF Len(filteredRepos) > 0
       THEN LET repo == filteredRepos[cursor + 1]
            IN  /\ currentView' = detailView
                /\ detailCursor' = 0
                /\ detailScrollOffset' = 0
                /\ loadingPRs' = FALSE
                /\ prLoadError' = ""
                /\ repoDetails' = enterDetails(prCache, repo)
                /\ UNCHANGED selectedRepo
       ELSE /\ UNCHANGED currentView
            /\ UNCHANGED detailFields
    /\ UNCHANGED <<filteredRepos, searchInput, cursor, scrollOffset, prCache,
                   prMode>>
    /\ UNCHANGED fixedFields
    /\ UNCHANGED worldVars

\* case "enter"
ListEnter ==
    /\ InList
    /\ Handled("enter", <<>>,
               IF Len(filteredRepos) > 0 THEN "enter" ELSE entry)
    /\ IF Len(filteredRepos) > 0
       THEN LET repo == filteredRepos[cursor + 1]
            IN  /\ selectedRepo' = Ptr(repo)
                /\ currentView' = detailView
                /\ detailCursor' = 0
                /\ detailScrollOffset' = 0
                /\ loadingPRs' = FALSE
                /\ prLoadError' = ""
                /\ repoDetails' = enterDetails(prCache, repo)
       ELSE /\ UNCHANGED currentView
            /\ UNCHANGED detailFields
    /\ UNCHANGED <<filteredRepos, searchInput, cursor, scrollOffset, prCache,
                   prMode>>
    /\ UNCHANGED fixedFields
    /\ UNCHANGED worldVars

\* a slip: one press clears the text and leaves PR mode as well
ListEscTwoTiers ==
    /\ InList
    /\ Handled("esc", <<>>, entry)
    /\ IF Len(searchInput) > 0 \/ prMode
       THEN /\ searchInput' = <<>>
            /\ prMode' = FALSE
            /\ filterRepos(prCache, <<>>, FALSE)
            /\ UNCHANGED quit
       ELSE /\ quit' = TRUE
            /\ UNCHANGED <<searchInput, prMode, filteredRepos, cursor,
                           scrollOffset>>
    /\ UNCHANGED <<prCache, currentView>>
    /\ UNCHANGED detailFields
    /\ UNCHANGED fixedFields
    /\ UNCHANGED <<pendingCache, pendingFetch, pendingCd, cdFile>>

\* case "esc"
ListEsc ==
    /\ InList
    /\ Handled("esc", <<>>, entry)
    /\ IF Len(searchInput) > 0
       THEN /\ searchInput' = <<>>
            /\ filterRepos(prCache, <<>>, prMode)
            /\ UNCHANGED <<prMode, quit>>
       ELSE IF prMode
       THEN /\ prMode' = FALSE
            /\ filterRepos(prCache, searchInput, FALSE)
            /\ UNCHANGED <<searchInput, quit>>
       ELSE /\ quit' = TRUE
            /\ UNCHANGED <<searchInput, prMode, filteredRepos, cursor,
                           scrollOffset>>
    /\ UNCHANGED <<prCache, currentView>>
    /\ UNCHANGED detailFields
    /\ UNCHANGED fixedFields
    /\ UNCHANGED <<pendingCache, pendingFetch, pendingCd, cdFile>>

\* m.searchInput[:len(m.searchInput)-1]
dropLast(s) == SubSeq(s, 1, Len(s) - 1)

\* case "backspace"
ListBackspace ==
    /\ InList
    /\ Handled("backspace", <<>>, entry)
    /\ IF Len(searchInput) > 0
       THEN /\ searchInput' = dropLast(searchInput)
            /\ filterRepos(prCache, dropLast(searchInput), prMode)
       ELSE UNCHANGED <<searchInput, filteredRepos, cursor, scrollOffset>>
    /\ UNCHANGED <<prCache, currentView, prMode>>
    /\ UNCHANGED detailFields
    /\ UNCHANGED fixedFields
    /\ UNCHANGED worldVars

\* default case, len(msg.String()) == 1
ListChar ==
    /\ InList
    /\ Len(searchInput) < MaxSearchLen
    /\ \E c \in TypedChars :
        /\ Handled("char", <<>>, entry)
        /\ searchInput' = Append(searchInput, c)
        /\ filterRepos(prCache, Append(searchInput, c), prMode)
    /\ UNCHANGED <<prCache, currentView, prMode>>
    /\ UNCHANGED detailFields
    /\ UNCHANGED fixedFields
    /\ UNCHANGED worldVars

\* default case, any other key ("tab", "left", ...)
ListOtherKey ==
    /\ InList
    /\ Handled("other", <<>>, entry)
    /\ UNCHANGED modelVars
    /\ UNCHANGED worldVars

(***************************************************************************)
(* updateDetailView: one action per case of the switch                      *)
(***************************************************************************)
InDetail == currentView = detailView
listFields == <<filteredRepos, searchInput, cursor, scrollOffset, prCache>>

\* case "ctrl+c"
DetailCtrlC ==
    /\ InDetail
    /\ Handled("ctrl+c", <<>>, entry)
    /\ quit' = TRUE
    /\ UNCHANGED modelVars
    /\ UNCHANGED <<pendingCache, pendingFetch, pendingCd, cdFile>>

\* case "ctrl+d"
DetailCtrlD ==
    /\ InDetail
    /\ Handled("ctrl+d", <<>>, entry)
    /\ IF selectedRepo # Nil
       THEN pendingCd' = pendingCd \cup {Deref(selectedRepo).Directory}
       ELSE UNCHANGED pendingCd
    /\ UNCHANGED modelVars
    /\ UNCHANGED <<quit, pendingCache, pendingFetch, cdFile>>

\* a slip: the selection survives the return to the list
backToListSelected ==
    /\ currentView' = listView
    /\ selectedRepo' = selectedRepo
    /\ repoDetails' = <<>>
    /\ detailCursor' = 0
    /\ detailScrollOffset' = 0

\* a slip: the detail cursor and offset are kept when the view is left
backToListKeepsCursor ==
    /\ currentView' = listView
    /\ selectedRepo' = Nil
    /\ repoDetails' = <<>>
    /\ UNCHANGED <<detailCursor, detailScrollOffset>>

\* the lines that leave the detail view: back to the list, nothing selected
backToList ==
    /\ currentView' = listView
    /\ selectedRepo' = Nil
    /\ repoDetails' = <<>>
    /\ detailCursor' = 0
    /\ detailScrollOffset' = 0

\* case "ctrl+p"
DetailCtrlP ==
    /\ InDetail
    /\ Handled("ctrl+p", <<>>, "none")
    /\ prMode' = ctrlPMode(prMode)
    /\ searchInput' = <<>>
    /\ backToList
    /\ filterRepos(prCache, <<>>, ctrlPMode(prMode))
    /\ UNCHANGED <<prCache, loadingPRs, prLoadError>>
    /\ UNCHANGED fixedFields
    /\ UNCHANGED worldVars

\* a slip: leaving the detail view puts the list cursor back on the first row
DetailEscResetsList ==
    /\ InDetail
    /\ Handled("esc", <<>>,
               IF startedInDetailView /\ ~prMode THEN entry ELSE "none")
    /\ IF startedInDetailView /\ ~prMode
       THEN /\ quit' = TRUE
            /\ UNCHANGED <<prMode, currentView, selectedRepo, repoDetails,
                           detailCursor, detailScrollOffset>>
       ELSE /\ prMode' = IF startedInDetailView THEN FALSE ELSE prMode
            /\ backToList
            /\ UNCHANGED quit
    /\ cursor' = 0
    /\ scrollOffset' = 0
    /\ UNCHANGED <<filteredRepos, searchInput, prCache>>
    /\ UNCHANGED <<loadingPRs, prLoadError>>
    /\ UNCHANGED fixedFields
    /\ UNCHANGED <<pendingCache, pendingFetch, pendingCd, cdFile>>

\* case "esc"
DetailEsc ==
    /\ InDetail
    /\ Handled("esc", <<>>,
               IF startedInDetailView /\ ~prMode THEN entry ELSE "none")
    /\ IF startedInDetailView /\ ~prMode
       THEN /\ quit' = TRUE
            /\ UNCHANGED <<prMode, currentView, selectedRepo, repoDetails,
                           detailCursor, detailScrollOffset>>
       ELSE /\ prMode' = IF startedInDetailView THEN FALSE ELSE prMode
            /\ backToList
            /\ UNCHANGED quit
    /\ UNCHANGED listFields
    /\ UNCHANGED <<loadingPRs, prLoadError>>
    /\ UNCHANGED fixedFields
    /\ UNCHANGED <<pendingCache, pendingFetch, pendingCd, cdFile>>

\* case "up"
DetailUp ==
    /\ InDetail
    /\ Handled("up", <<>>, entry)
    /\ IF detailCursor > 0
       THEN /\ detailCursor' = detailCursor - 1
            /\ detailScrollOffset' = scrollUp(detailCursor - 1,
                                              detailScrollOffset)
       ELSE UNCHANGED <<detailCursor, detailScrollOffset>>
    /\ UNCHANGED listFields
    /\ UNCHANGED <<currentView, selectedRepo, repoDetails, loadingPRs,
                   prLoadError, prMode>>
    /\ UNCHANGED fixedFields
    /\ UNCHANGED worldVars

\* case "down"
DetailDown ==
    /\ InDetail
    /\ Handled("down", <<>>, entry)
    /\ IF detailCursor < maxItems(repoDetails) - 1
       THEN /\ detailCursor' = detailCursor + 1
            /\ detailScrollOffset' =
                   scrollDown(detailCursor + 1, detailScrollOffset,
                              detailVisibleHeight(terminalHeight))
       ELSE UNCHANGED <<detailCursor, detailScrollOffset>>
    /\ UNCHANGED listFields
    /\ UNCHANGED <<currentView, selectedRepo, repoDetails, loadingPRs,
                   prLoadError, prMode>>
    /\ UNCHANGED fixedFields
    /\ UNCHANGED worldVars

\* case "pgup"
DetailPgUp ==
    /\ InDetail
    /\ Handled("pgup", <<>>, entry)
    /\ LET c == pgUpCursor(detailCursor, detailVisibleHeight(terminalHeight))
       IN  /\ detailCursor' = c
           /\ detailScrollOffset' = scrollUp(c, detailScrollOffset)
    /\ UNCHANGED listFields
    /\ UNCHANGED <<currentView, selectedRepo, repoDetails, loadingPRs,
                   prLoadError, prMode>>
    /\ UNCHANGED fixedFields
    /\ UNCHANGED worldVars

\* case "pgdown"
DetailPgDown ==
    /\ InDetail
    /\ Handled("pgdown", <<>>, entry)
    /\ LET vh == detailVisibleHeight(terminalHeight)
           c  == pgDownCursor(detailCursor, vh, maxItems(repoDetails))
       IN  /\ detailCursor' = c
           /\ detailScrollOffset' = scrollDown(c, detailScrollOffset, vh)
    /\ UNCHANGED listFields
    /\ UNCHANGED <<currentView, selectedRepo, repoDetails, loadingPRs,
                   prLoadError, prMode>>
    /\ UNCHANGED fixedFields
    /\ UNCHANGED worldVars

\* a slip: the repository URL is opened whatever the cursor is on
enterURLsRepoOnly(sel, details, c) ==
    IF sel = Nil THEN <<>>
    ELSE IF Deref(sel).GitHubURL # NA /\ Deref(sel).GitHubURL # NonGitHub
    THEN <<Deref(sel).GitHubURL>>
    ELSE <<>>

\* the URLs the "enter" case hands to openURL
enterURLs(sel, details, c) ==
    IF sel = Nil THEN <<>>
    ELSE IF c = 0
    THEN IF Deref(sel).GitHubURL # NA /\ Deref(sel).GitHubURL # NonGitHub
         THEN <<Deref(sel).GitHubURL>>
         ELSE <<>>
    ELSE IF Len(details) > 0 /\ c - 1 < Len(details)
    THEN <<details[c].URL>>
    ELSE <<>>

\* case "enter"
DetailEnter ==
    /\ InDetail
    /\ Handled("enter", enterURLs(selectedRepo, repoDetails, detailCursor),
               entry)
    /\ UNCHANGED modelVars
    /\ UNCHANGED worldVars

\* any other key: no case of the switch
DetailOtherKey ==
    /\ InDetail
    /\ Handled("other", <<>>, entry)
    /\ UNCHANGED modelVars
    /\ UNCHANGED worldVars

(***************************************************************************)
(* the event loop                                                           *)
(***************************************************************************)
Next ==
    \/ WindowSizeMsg
    \/ prCacheLoadedMsg
    \/ prLoadedMsg
    \/ changeDirMsg
    \/ ListCtrlC
    \/ ListCtrlD
    \/ ListCtrlP
    \/ ListUp
    \/ ListDown
    \/ ListPgUp
    \/ ListPgDown
    \/ ListEnter
    \/ ListEsc
    \/ ListBackspace
    \/ ListChar
    \/ ListOtherKey
    \/ DetailCtrlC
    \/ DetailCtrlD
    \/ DetailCtrlP
    \/ DetailEsc
    \/ DetailUp
    \/ DetailDown
    \/ DetailPgUp
    \/ DetailPgDown
    \/ DetailEnter
    \/ DetailOtherKey

Spec == Init /\ [][Next]_vars

(***************************************************************************)
(* properties                                                               *)
(***************************************************************************)
NavKeys == {"up", "down", "pgup", "pgdown"}

\* C1: in every reachable state the list cursor is within
\* [0, len(filteredRepos)-1] when the filtered list is non-empty, and is 0
\* when it is empty
CursorWithinList ==
    IF Len(filteredRepos) > 0
    THEN 0 <= cursor /\ cursor <= Len(filteredRepos) - 1
    ELSE cursor = 0

\* C2: right after a navigation key handled in the list view the cursor is
\* within [scrollOffset, scrollOffset+capacity-1], capacity =
\* max(1, terminalHeight-12), whatever came before the key (stated for a
\* non-empty list, where the cursor is on an item)
CursorVisibleAfterNavigation ==
    (last.ev \in NavKeys /\ last.view = listView /\ Len(filteredRepos) > 0)
        => /\ scrollOffset <= cursor
           /\ cursor <= scrollOffset + listVisibleHeight(terminalHeight) - 1

\* C3: whenever the filtered list is non-empty, 0 <= scrollOffset <= cursor,
\* so the first rendered row (startIdx) is neither past the cursor nor past
\* the last item
ScrollOffsetWithinCursor ==
    Len(filteredRepos) > 0
        => /\ 0 <= scrollOffset
           /\ scrollOffset <= cursor
           /\ scrollOffset <= Len(filteredRepos) - 1

\* C3 witness: the list is scrolled and the cursor sits on its first
\* visible row after moving up
ScrolledListReached ==
    /\ Len(filteredRepos) > 0
    /\ scrollOffset > 0
    /\ scrollOffset = cursor
    /\ last.ev \in {"up", "pgup"}

\* C4: esc in the list view does exactly one of: clear a non-empty search
\* text and re-filter (mode kept, no quit); else leave PR mode and re-filter
\* (no quit); else quit
EscInListOneTier ==
    [][(last'.ev = "esc" /\ InList)
         => IF Len(searchInput) > 0
            THEN /\ searchInput' = <<>>
                 /\ prMode' = prMode
                 /\ ~quit'
                 /\ filteredRepos' = filterResult(repos, prCache, <<>>, prMode)
                 /\ scrollOffset' = 0
            ELSE IF prMode
            THEN /\ prMode' = FALSE
                 /\ ~quit'
                 /\ searchInput' = <<>>
                 /\ filteredRepos' = filterResult(repos, prCache, <<>>, FALSE)
                 /\ scrollOffset' = 0
            ELSE /\ quit'
                 /\ UNCHANGED <<searchInput, prMode, filteredRepos, cursor,
                                scrollOffset>>]_vars

\* C4 witness: esc was handled in the list view in PR mode, and PR mode is
\* still on: the press cleared the text only
EscClearedTextInPRMode ==
    /\ last.ev = "esc"
    /\ last.view = listView
    /\ last.prMode
    /\ prMode
    /\ searchInput = <<>>
    /\ ~quit

\* C5: in a run started in the detail view, esc in Detail with PR mode on
\* turns PR mode off and stays in Detail with the repository selected; with
\* PR mode off it quits
EscInInitialDetail ==
    (last.ev = "esc" /\ last.view = detailView /\ startedInDetailView)
        => IF last.prMode
           THEN /\ ~prMode
                /\ currentView = detailView
                /\ selectedRepo # Nil
                /\ ~quit
           ELSE quit

\* C6: esc in a Detail view that was entered with enter from the list
\* returns to the list and does not quit, also in a run started in Detail
EscLeavesSelectedDetail ==
    (last.ev = "esc" /\ last.view = detailView /\ last.entry = "enter")
        => currentView = listView /\ ~quit

\* C7 as claimed: ctrl+p toggles between local mode and PR mode
CtrlPTogglesMode ==
    last.ev = "ctrl+p" => prMode = ~last.prMode

\* C7 as amended: ctrl+p always leaves PR mode on, from local mode and from
\* PR mode (it never returns to local mode)
CtrlPEntersPRMode ==
    last.ev = "ctrl+p" => prMode

\* C7 witness: ctrl+p was pressed in PR mode
CtrlPPressedInPRMode ==
    last.ev = "ctrl+p" /\ last.prMode

\* C8: after ctrl+p in either view the search text is empty, the filtered
\* list is the filter result for the empty text, the view is List, nothing
\* is selected and the detail cursor and scroll offset are 0
CtrlPResetsToList ==
    last.ev = "ctrl+p"
        => /\ searchInput = <<>>
           /\ filteredRepos = filterResult(repos, prCache, <<>>, prMode)
           /\ currentView = listView
           /\ selectedRepo = Nil
           /\ detailCursor = 0
           /\ detailScrollOffset = 0

\* C8 witness: ctrl+p was pressed in the detail view
CtrlPPressedInDetail ==
    last.ev = "ctrl+p" /\ last.view = detailView /\ currentView = listView

\* C9 as claimed: enter on a non-empty list with the cache not loaded enters
\* Detail with the loading flag set and one fetch for the selected repository
\* in flight
EnterFetchesWithoutCache ==
    (/\ last.ev = "enter"
     /\ last.view = listView
     /\ currentView = detailView
     /\ ~CacheLoaded(prCache))
        => /\ loadingPRs
           /\ \E i \in DOMAIN pendingFetch :
                  pendingFetch[i] = Deref(selectedRepo).GitHubURL

\* C9 as amended: enter on a non-empty list enters Detail on the item under
\* the cursor with the loading flag and error cleared and never issues a
\* fetch; the detail list is the cache's entries for the repository's URL
\* when the cache is loaded and empty when it is not
EnterServesFromCacheOnly ==
    [][(last'.ev = "enter" /\ InList /\ Len(filteredRepos) > 0)
         => LET repo == filteredRepos[cursor + 1]
            IN  /\ currentView' = detailView
                /\ selectedRepo' = Ptr(repo)
                /\ ~loadingPRs'
                /\ prLoadError' = ""
                /\ pendingFetch' = pendingFetch
                /\ repoDetails' = IF CacheLoaded(prCache)
                                  THEN CachedPRs(prCache, repo.GitHubURL)
                                  ELSE <<>>]_vars

\* C9 witness: enter was handled in the list view while the cache was not
\* loaded
EnteredDetailWithoutCache ==
    /\ last.ev = "enter"
    /\ last.view = listView
    /\ currentView = detailView
    /\ ~CacheLoaded(prCache)

\* C10: a prLoadedMsg handled when the selected repository is not the one
\* the fetch was issued for (nothing is selected in the list view) leaves the
\* detail list, the loading flag and the error string unchanged
StaleFetchDiscarded ==
    [][(/\ last'.ev \in {"fetchLoaded", "fetchFailed"}
        /\ \A i \in DOMAIN pendingFetch :
               \/ selectedRepo = Nil
               \/ Deref(selectedRepo).GitHubURL # pendingFetch[i])
         => UNCHANGED <<repoDetails, loadingPRs, prLoadError>>]_vars

(***************************************************************************)
(* the cache load under fair delivery                                       *)
(***************************************************************************)
\* Bubble Tea runs every command it is given in a goroutine of its own and
\* delivers the message it returns: a loadPRCacheCmd or loadPRsCmd that is
\* running does complete, and its message is handled
FairSpec == Spec /\ WF_vars(prCacheLoadedMsg) /\ WF_vars(prLoadedMsg)

\* C11: in every run the load of the user-wide cache is issued and, its
\* completion being delivered, the cache is eventually loaded (unless the
\* program has quit first); runs that start in the detail view included
CacheEventuallyLoaded == <>(CacheLoaded(prCache) \/ quit)

HasGitHubLinkage(repo) == repo.GitHubURL # NA /\ repo.GitHubURL # NonGitHub

\* the number of cached pull requests of a URL, 0 while nothing is cached
CachedCount(cache, url) ==
    IF CacheLoaded(cache)
    THEN Cardinality({i \in DOMAIN Deref(cache).allPRs :
                          Deref(cache).allPRs[i].RepoURL = url})
    ELSE 0

\* the repositories of a list, by directory
Listed(rs) == {rs[i].Directory : i \in DOMAIN rs}

\* C13: a filter pass in PR mode with empty search text (the one ctrl+p
\* runs) leaves exactly the repositories with GitHub linkage, each with its
\* count from the cache
PRModeEmptySearchLinkedOnly ==
    (last.ev = "ctrl+p" /\ prMode /\ searchInput = <<>>)
        => /\ \A i \in DOMAIN repos :
                  repos[i].Directory \in Listed(filteredRepos)
                      <=> HasGitHubLinkage(repos[i])
           /\ \A j \in DOMAIN filteredRepos :
                  filteredRepos[j].PRCount =
                      CachedCount(prCache, filteredRepos[j].GitHubURL)

(***************************************************************************)
(* the filter as a function: filterRepos applied once to a model whose      *)
(* repositories, cache, search text and mode are drawn from small sets      *)
(***************************************************************************)
MaxQueryLen == 2
FilterChars == {"x", "y", "a", "w", "X"}

\* the strings over a set of characters, up to a length
RECURSIVE StringsUpTo(_, _)
StringsUpTo(chars, n) ==
    IF n = 0 THEN {<<>>}
    ELSE LET shorter == StringsUpTo(chars, n - 1)
         IN  shorter \cup {Append(q, c) : q \in shorter, c \in chars}

\* the searches the documentation gives as examples of mnemonic matching
DocQueries == {<<"f", "b">>, <<"m", "a", "n">>}

FilterQueries == StringsUpTo(FilterChars, MaxQueryLen) \cup DocQueries

\* a second working copy of the repository of RepoXa
RepoXb == GitRepo(<<"/","w","/","X","b">>, URLxa, URLxa)

\* a repository whose directory name is written in camelCase
RepoCamel == GitRepo(<<"/","w","/","m","y","A","p","p","N","a","m","e">>,
                     NA, NA)

\* repository lists findGitRepositories can return
FilterRepoLists ==
    {DiscoveredRepos, <<RepoXa, RepoXb, RepoXY>>, <<RepoXY, RepoYz>>,
     <<RepoCamel, RepoXa>>}

\* a pull request whose title is two words separated by a space
PRFixBug == PR(4, <<"F","i","x"," ","B","u","g">>, URLxa)

\* m.prCache: nil, or what loadAllUserPRs returned
FilterCaches ==
    {Nil} \cup {Ptr(PRCache(prs)) : prs \in UserPRLists \cup {<<PRFixBug>>}}

\* the list-view model literal of main, over the drawn inputs
InitFilter ==
    /\ repos \in FilterRepoLists
    /\ filteredRepos = repos
    /\ searchInput \in FilterQueries
    /\ cursor = 0
    /\ prCache \in FilterCaches
    /\ currentView = listView
    /\ selectedRepo = Nil
    /\ repoDetails = <<>>
    /\ detailCursor = 0
    /\ loadingPRs = FALSE
    /\ prLoadError = ""
    /\ startedInDetailView = FALSE
    /\ terminalHeight = 24
    /\ scrollOffset = 0
    /\ detailScrollOffset = 0
    /\ prMode \in BOOLEAN
    /\ quit = FALSE
    /\ pendingCache = FALSE
    /\ pendingFetch = <<>>
    /\ pendingCd = {}
    /\ cdFile = <<>>
    /\ opened = <<>>
    /\ entry = "none"
    /\ last = [ev |-> "init", view |-> listView, prMode |-> prMode,
               entry |-> "none"]
    /\ probe = Nil

\* m.filterRepos()
FilterPass ==
    /\ last.ev = "init"
    /\ Handled("filter", <<>>, entry)
    /\ filterRepos(prCache, searchInput, prMode)
    /\ UNCHANGED <<repos, searchInput, prCache, currentView, selectedRepo,
                   repoDetails, detailCursor, loadingPRs, prLoadError,
                   startedInDetailView, terminalHeight, detailScrollOffset,
                   prMode>>
    /\ UNCHANGED worldVars

SpecFilter == InitFilter /\ [][FilterPass]_vars

\* the test of the first loop of filterReposByPRs
TitleMatches(title, search) ==
    \/ Contains(ToLower(title), ToLower(search))
    \/ matchesMnemonic(ToLower(title), ToLower(search))

\* the cached pull requests of a URL whose title matches
MatchingOf(cache, url, search) ==
    SelectSeq(Deref(cache).allPRs,
              LAMBDA p : p.RepoURL = url /\ TitleMatches(p.Title, search))

PRModeFiltered ==
    /\ last.ev = "filter"
    /\ prMode
    /\ searchInput # <<>>
    /\ CacheLoaded(prCache)

\* C14: in PR mode with non-empty search text and a loaded cache a repository
\* is in the result iff it has GitHub linkage and a cached pull request of
\* its URL has a matching title; its count is the number of cached pull
\* requests of its URL and its matching list is the matching ones of its URL
PRModeResultExact ==
    PRModeFiltered
        => /\ \A i \in DOMAIN repos :
                  repos[i].Directory \in Listed(filteredRepos)
                      <=> /\ HasGitHubLinkage(repos[i])
                          /\ MatchingOf(prCache, repos[i].GitHubURL,
                                        searchInput) # <<>>
           /\ \A j \in DOMAIN filteredRepos :
                  /\ filteredRepos[j].PRCount =
                         CachedCount(prCache, filteredRepos[j].GitHubURL)
                  /\ filteredRepos[j].MatchingPRs =
                         MatchingOf(prCache, filteredRepos[j].GitHubURL,
                                    searchInput)

\* C14 witness: a repository listed for a mnemonic match, with more cached
\* pull requests
\* than matching ones
MnemonicPRMatchListed ==
    /\ PRModeFiltered
    /\ \E j \in DOMAIN filteredRepos :
           /\ filteredRepos[j].PRCount > Len(filteredRepos[j].MatchingPRs)
           /\ \E k \in DOMAIN filteredRepos[j].MatchingPRs :
                  ~Contains(ToLower(filteredRepos[j].MatchingPRs[k].Title),
                            ToLower(searchInput))

\* a PR-mode filter pass whose search text matches exactly one cached pull
\* request
OnePRMatched ==
    /\ PRModeFiltered
    /\ Len(matchingPRs(prCache, searchInput)) = 1

\* the only matching pull request
ThePR == matchingPRs(prCache, searchInput)[1]

\* C15 as claimed: a query that matches exactly one cached pull request
\* returns exactly one repository, the one that owns it, with its total
\* cached count and that pull request attached, whatever the repository list
OnePRMatchOneRepo ==
    OnePRMatched
        => /\ Len(filteredRepos) = 1
           /\ filteredRepos[1].GitHubURL = ThePR.RepoURL
           /\ filteredRepos[1].PRCount = CachedCount(prCache, ThePR.RepoURL)
           /\ filteredRepos[1].MatchingPRs = <<ThePR>>

\* C15 as amended: a query that matches exactly one cached pull request
\* returns exactly
\* the local repositories whose URL is that pull request's repository, in
\* their order (none, one or several), each with the total cached count of
\* that URL and that pull request attached
OnePRMatchOwners ==
    OnePRMatched
        => LET owners == SelectSeq(repos,
                                   LAMBDA r : r.GitHubURL = ThePR.RepoURL)
           IN  /\ Len(filteredRepos) = Len(owners)
               /\ \A j \in DOMAIN filteredRepos :
                      /\ filteredRepos[j].Directory = owners[j].Directory
                      /\ filteredRepos[j].PRCount =
                             CachedCount(prCache, ThePR.RepoURL)
                      /\ filteredRepos[j].MatchingPRs = <<ThePR>>

\* C15 witness: one matching pull request, two working copies of its
\* repository
OnePRTwoOwners ==
    /\ OnePRMatched
    /\ Len(filteredRepos) = 2

LocalFiltered ==
    /\ last.ev = "filter"
    /\ ~prMode

\* C16: in local mode with non-empty search text a repository is in the
\* result iff its lowercased directory or its lowercased URL contains the
\* lowercased search text, or the mnemonic matcher accepts the search text
\* against one of the two
LocalResultExact ==
    (LocalFiltered /\ searchInput # <<>>)
        => \A i \in DOMAIN repos :
               repos[i].Directory \in Listed(filteredRepos)
                   <=> \E text \in {ToLower(repos[i].Directory),
                                    ToLower(repos[i].GitHubURL)} :
                           \/ Contains(text, ToLower(searchInput))
                           \/ matchesMnemonic(text, ToLower(searchInput))

\* C16 witness: a listing that keeps a repository for its URL alone and
\* drops another
LocalResultMixed ==
    /\ LocalFiltered
    /\ searchInput # <<>>
    /\ \E j \in DOMAIN filteredRepos :
           /\ ~Contains(ToLower(filteredRepos[j].Directory),
                        ToLower(searchInput))
           /\ ~matchesMnemonic(ToLower(filteredRepos[j].Directory),
                               ToLower(searchInput))
    /\ Len(filteredRepos) < Len(repos)

\* C17: filtering with empty search text in local mode returns every
\* repository in the original order, each with the number of cached pull
\* requests of its URL as its count, 0 while the cache is not loaded
LocalEmptySearchAll ==
    (LocalFiltered /\ searchInput = <<>>)
        => /\ Len(filteredRepos) = Len(repos)
           /\ \A i \in DOMAIN repos :
                  /\ filteredRepos[i].Directory = repos[i].Directory
                  /\ filteredRepos[i].PRCount =
                         IF CacheLoaded(prCache)
                         THEN CachedCount(prCache, repos[i].GitHubURL)
                         ELSE 0

\* C17 witness: every repository listed, one of them with pull requests
\* counted
LocalEmptySearchCounted ==
    /\ LocalFiltered
    /\ searchInput = <<>>
    /\ CacheLoaded(prCache)
    /\ Len(filteredRepos) = 3
    /\ \E j \in DOMAIN filteredRepos : filteredRepos[j].PRCount = 2

(***************************************************************************)
(* the cursor after a filter pass                                           *)
(***************************************************************************)
\* the steps of the program that run filterRepos
FilterStep ==
    \/ last'.ev \in {"ctrl+p", "char", "cacheLoaded", "cacheFailed"}
    \/ /\ last'.ev = "esc"
       /\ currentView = listView
       /\ searchInput # <<>> \/ prMode
    \/ /\ last'.ev = "backspace"
       /\ currentView = listView
       /\ searchInput # <<>>

\* C18: after every filter pass the scroll offset is 0 and the cursor is its
\* previous value if that is within [0, len(result)-1], else len(result)-1,
\* or 0 if the result is empty
CursorClampedAfterFilter ==
    [][FilterStep
         => /\ scrollOffset' = 0
            /\ cursor' = IF filteredRepos' = <<>> THEN 0
                         ELSE IF 0 <= cursor
                                 /\ cursor <= Len(filteredRepos') - 1
                         THEN cursor
                         ELSE Len(filteredRepos') - 1]_vars

(***************************************************************************)
(* the mnemonic matcher as a function: matchesMnemonic called once on a     *)
(* text and a query drawn from small sets                                   *)
(***************************************************************************)
MaxTextLen == 4
MatchTextChars == {"a", "b", "B", "-"}
MatchQueryChars == {"a", "b", "B"}

MatchTexts == StringsUpTo(MatchTextChars, MaxTextLen)
MatchQueries == StringsUpTo(MatchQueryChars, MaxQueryLen)

\* no program is running: the model holds no repository and nothing is in
\* flight
NoProgram ==
    /\ repos = <<>>
    /\ filteredRepos = <<>>
    /\ searchInput = <<>>
    /\ cursor = 0
    /\ prCache = Nil
    /\ currentView = listView
    /\ selectedRepo = Nil
    /\ repoDetails = <<>>
    /\ detailCursor = 0
    /\ loadingPRs = FALSE
    /\ prLoadError = ""
    /\ startedInDetailView = FALSE
    /\ terminalHeight = 24
    /\ scrollOffset = 0
    /\ detailScrollOffset = 0
    /\ prMode = FALSE
    /\ quit = FALSE
    /\ pendingCache = FALSE
    /\ pendingFetch = <<>>
    /\ pendingCd = {}
    /\ cdFile = <<>>
    /\ opened = <<>>
    /\ entry = "none"
    /\ last = [ev |-> "init", view |-> listView, prMode |-> FALSE,
               entry |-> "none"]

\* the arguments of one call of matchesMnemonic
InitMatch ==
    /\ NoProgram
    /\ \E text \in MatchTexts, query \in MatchQueries :
           probe = [text |-> text, query |-> query, done |-> FALSE,
                    result |-> FALSE]

\* matchesMnemonic(text, query)
CallMatchesMnemonic ==
    /\ ~probe.done
    /\ probe' = [probe EXCEPT
                     !.done = TRUE,
                     !.result = matchesMnemonic(probe.text, probe.query)]
    /\ UNCHANGED <<modelVars, worldVars, opened, entry, last>>

SpecMatch == InitMatch /\ [][CallMatchesMnemonic]_vars

\* the first characters of the words of a text
Initials(text) ==
    LET words == extractWords(text)
    IN  [k \in DOMAIN words |-> words[k][1]]

\* the number of query characters consumed by one left-to-right pass over
\* the first characters: a first character consumes the next unconsumed
\* query character when it equals it, case ignored
Consumed(initials, query) ==
    LET c[k \in 0..Len(initials)] ==
            IF k = 0 THEN 0
            ELSE IF /\ c[k - 1] < Len(query)
                    /\ ToLowerChar(initials[k]) =
                           ToLowerChar(query[c[k - 1] + 1])
            THEN c[k - 1] + 1
            ELSE c[k - 1]
    IN  c[Len(initials)]

\* a text with the same first characters and no interior characters
RECURSIVE InitialsText(_)
InitialsText(initials) ==
    IF initials = <<>> THEN <<>>
    ELSE <<initials[1], "-">> \o InitialsText(Tail(initials))

\* C19: matchesMnemonic(text, query) is true iff one left-to-right pass over
\* the words of the text, each word consuming the next query character
\* exactly when its first character equals it case-insensitively, consumes
\* the whole query; the empty query matches every text; the characters after
\* the first of each word do not change the result
GreedyPassDecides ==
    probe.done
        => /\ probe.result
               <=> Consumed(Initials(probe.text), probe.query)
                       = Len(probe.query)
           /\ probe.query = <<>> => probe.result
           /\ probe.result
               <=> matchesMnemonic(InitialsText(Initials(probe.text)),
                                   probe.query)

\* C19 witness: a match that ignores case and interior characters and skips
\* a word
MatchedAcrossCaseAndSkip ==
    /\ probe.done
    /\ probe.result
    /\ Len(probe.query) = 2
    /\ Len(Initials(probe.text)) = 3
    /\ Len(probe.text) > 3
    /\ \E k \in DOMAIN probe.query :
           probe.query[k] \notin {Initials(probe.text)[i] :
                                      i \in DOMAIN Initials(probe.text)}

\* whether the query from index j on can be aligned, in order, with first
\* characters from index i on: every alignment is tried
RECURSIVE Aligns(_, _, _, _)
Aligns(initials, i, query, j) ==
    IF j > Len(query) THEN TRUE
    ELSE IF i > Len(initials) THEN FALSE
    ELSE \/ /\ ToLowerChar(initials[i]) = ToLowerChar(query[j])
            /\ Aligns(initials, i + 1, query, j + 1)
         \/ Aligns(initials, i + 1, query, j)

\* the backtracking subsequence match on the first characters of the words
Backtracks(text, query) == Aligns(Initials(text), 1, query, 1)

\* C20 as claimed: there are a text and a query for which the backtracking
\* search succeeds while the greedy pass of matchesMnemonic fails
GreedyGapExists ==
    \E text \in MatchTexts \cup {probe.text},
       query \in MatchQueries \cup {probe.query} :
        Backtracks(text, query) /\ ~matchesMnemonic(text, query)

\* C20 as amended: for every text and query the greedy pass of
\* matchesMnemonic succeeds
\* exactly when the backtracking search over all alignments succeeds
GreedyIsBacktracking ==
    probe.done => (probe.result <=> Backtracks(probe.text, probe.query))

\* C20 witness: a match where the query character can be aligned with more
\* than one word
\* and the greedy pass takes the first
MatchedWithChoice ==
    /\ probe.done
    /\ probe.result
    /\ Len(probe.query) = 2
    /\ LET initials == Initials(probe.text)
       IN  /\ Len(initials) = 3
           /\ ToLowerChar(initials[1]) = ToLowerChar(probe.query[1])
           /\ ToLowerChar(initials[2]) = ToLowerChar(probe.query[1])
           /\ ToLowerChar(initials[3]) = ToLowerChar(probe.query[2])
           /\ ToLowerChar(initials[2]) # ToLowerChar(probe.query[2])

(***************************************************************************)
(* the tokenizer as a function: extractWords called once on a drawn text    *)
(***************************************************************************)
WordTextChars == {"a", "B", "1", "-", ".", " "}
WordTexts == StringsUpTo(WordTextChars, MaxTextLen)

\* the argument of one call of extractWords
InitWords ==
    /\ NoProgram
    /\ \E text \in WordTexts :
           probe = [text |-> text, done |-> FALSE, words |-> <<>>]

\* extractWords(text)
CallExtractWords ==
    /\ ~probe.done
    /\ probe' = [probe EXCEPT !.done = TRUE,
                              !.words = extractWords(probe.text)]
    /\ UNCHANGED <<modelVars, worldVars, opened, entry, last>>

SpecWords == InitWords /\ [][CallExtractWords]_vars

\* the words of a list written one after the other
RECURSIVE Concat(_)
Concat(words) ==
    IF words = <<>> THEN <<>> ELSE Head(words) \o Concat(Tail(words))

\* the positions (from 1) of the letters and digits of a text
AlnumPositions(text) ==
    LET kept[i \in 0..Len(text)] ==
            IF i = 0 THEN <<>>
            ELSE IF IsAlnum(text[i]) THEN Append(kept[i - 1], i)
            ELSE kept[i - 1]
    IN  kept[Len(text)]

\* a break before the character at position p (from 1): it follows a
\* delimiter, or it is an uppercase letter that follows a lowercase one
BreakBefore(text, p) ==
    /\ p > 1
    /\ \/ text[p - 1] \in {"-", "_", "/", "\\", "."}
       \/ IsLower(text[p - 1]) /\ IsUpper(text[p])

\* the number of letters and digits in the first k words
LengthOfFirst(words, k) == Len(Concat(SubSeq(words, 1, k)))

\* C21: the words of a text are non-empty and made of letters and digits
\* only; written one after the other they are the text without its other
\* characters; two successive letters or digits fall into different words
\* exactly when a break lies between them (after a delimiter - _ / \ . or at
\* a lowercase-to-uppercase step); the empty text has no words
WordsAreTheAlnumRuns ==
    probe.done
        => LET text  == probe.text
               words == probe.words
               at    == AlnumPositions(text)
           IN  /\ \A k \in DOMAIN words :
                      /\ words[k] # <<>>
                      /\ \A i \in DOMAIN words[k] : IsAlnum(words[k][i])
               /\ Concat(words) = SelectSeq(text, IsAlnum)
               /\ \A n \in 1..(Len(at) - 1) :
                      (\E k \in 1..(Len(words) - 1) :
                           LengthOfFirst(words, k) = n)
                          <=> \E p \in (at[n] + 1)..at[n + 1] :
                                  BreakBefore(text, p)
               /\ text = <<>> => words = <<>>

\* C21 witness: a text split at a lowercase-to-uppercase step, with a space
\* dropped inside the second word
CamelSplitSpaceDropped ==
    /\ probe.done
    /\ probe.text = <<"a", "B", " ", "1">>
    /\ probe.words = << <<"a">>, <<"B", "1">> >>

(***************************************************************************)
(* the documented examples of mnemonic search, in the filter                *)
(***************************************************************************)
\* the first characters of the space-separated words of a title
SpaceInitials(title) ==
    LET starts == {i \in DOMAIN title :
                       /\ title[i] # " "
                       /\ i = 1 \/ title[i - 1] = " "}
        picked[i \in 0..Len(title)] ==
            IF i = 0 THEN <<>>
            ELSE IF i \in starts THEN Append(picked[i - 1], title[i])
            ELSE picked[i - 1]
    IN  picked[Len(title)]

\* C22: in PR mode with a loaded cache, a search text that is the initials
\* of the space-separated words of a cached pull request's title selects the
\* local repositories that own that pull request ("fb" for "Fix Bug")
TitleInitialsSelect ==
    PRModeFiltered
        => \A k \in DOMAIN Deref(prCache).allPRs :
               LET pr == Deref(prCache).allPRs[k]
               IN  ToLower(SpaceInitials(pr.Title)) = ToLower(searchInput)
                       => \A i \in DOMAIN repos :
                              repos[i].GitHubURL = pr.RepoURL
                                  => repos[i].Directory
                                         \in Listed(filteredRepos)

\* C23: in local mode a repository is selected when the mnemonic matcher
\* accepts the search text against its directory as written, camelCase
\* steps being word boundaries ("man" for myAppName)
CamelCaseSelects ==
    (LocalFiltered /\ searchInput # <<>>)
        => \A i \in DOMAIN repos :
               matchesMnemonic(repos[i].Directory, searchInput)
                   => repos[i].Directory \in Listed(filteredRepos)

(***************************************************************************)
(* the path minimizer as a function: calculateMinimalPaths called once on   *)
(* the directories of a drawn repository list                               *)
(***************************************************************************)
MaxPathLen == 2
MaxRepos == 3
PathNames == {<<"a">>, <<"b">>}

\* string(filepath.Separator)
Separator == "/"

\* strings.Join(components, sep)
RECURSIVE Join(_, _)
Join(components, sep) ==
    IF components = <<>> THEN <<>>
    ELSE IF Len(components) = 1 THEN components[1]
    ELSE components[1] \o <<sep>> \o Join(Tail(components), sep)

\* strings.Split(s, sep) for a one-character separator: the pieces found so
\* far and the piece under construction
RECURSIVE splitFrom(_, _, _, _)
splitFrom(s, sep, pieces, piece) ==
    IF s = <<>> THEN Append(pieces, piece)
    ELSE IF Head(s) = sep
    THEN splitFrom(Tail(s), sep, Append(pieces, piece), <<>>)
    ELSE splitFrom(Tail(s), sep, pieces, Append(piece, Head(s)))

Split(s, sep) == splitFrom(s, sep, <<>>, <<>>)

\* the sequences over a set, of length 1 up to n
RECURSIVE SeqsUpTo(_, _)
SeqsUpTo(S, n) ==
    IF n = 0 THEN {}
    ELSE LET shorter == SeqsUpTo(S, n - 1)
         IN  {<<x>> : x \in S} \cup shorter
                 \cup {Append(q, x) : q \in shorter, x \in S}

\* clean relative directory paths, as filepath.Walk builds them
Directories == {Join(c, Separator) : c \in SeqsUpTo(PathNames, MaxPathLen)}

\* the Directory fields of the repositories of a list
DirectoryLists == SeqsUpTo(Directories, MaxRepos)

\* a slip: no common prefix is found
findCommonPrefixNone(paths) == 0

\* findCommonPrefix: the loop over i from 0 with the count so far
RECURSIVE commonFrom(_, _, _)
commonFrom(paths, i, minLen) ==
    IF i >= minLen THEN i
    ELSE IF \A j \in DOMAIN paths : paths[j][i + 1] = paths[1][i + 1]
    THEN commonFrom(paths, i + 1, minLen)
    ELSE i

findCommonPrefix(paths) ==
    IF Len(paths) = 0 THEN 0
    ELSE LET minLen == CHOOSE n \in {Len(paths[j]) : j \in DOMAIN paths} :
                           \A j \in DOMAIN paths : n <= Len(paths[j])
         IN  commonFrom(paths, 0, minLen)

\* calculateMinimalPaths over the Directory fields; filepath.Rel(".", d)
\* returns a clean relative path as it is
calculateMinimalPaths(dirs) ==
    IF Len(dirs) = 0 THEN <<>>
    ELSE LET paths == [i \in DOMAIN dirs |-> Split(dirs[i], Separator)]
             commonPrefixLen == findCommonPrefix(paths)
         IN  [i \in DOMAIN dirs |->
                 IF commonPrefixLen >= Len(paths[i])
                 THEN paths[i][Len(paths[i])]
                 ELSE Join(SubSeq(paths[i], commonPrefixLen + 1,
                                  Len(paths[i])), Separator)]

\* the argument of one call of calculateMinimalPaths
InitPaths ==
    /\ NoProgram
    /\ \E dirs \in DirectoryLists :
           probe = [dirs |-> dirs, done |-> FALSE, result |-> <<>>]

\* calculateMinimalPaths(repos)
CallCalculateMinimalPaths ==
    /\ ~probe.done
    /\ probe' = [probe EXCEPT !.done = TRUE,
                              !.result = calculateMinimalPaths(probe.dirs)]
    /\ UNCHANGED <<modelVars, worldVars, opened, entry, last>>

SpecPaths == InitPaths /\ [][CallCalculateMinimalPaths]_vars

\* the components of a directory path
Components(dir) == Split(dir, Separator)

\* all the directories have the same first n components
SharePrefix(dirs, n) ==
    \A i \in DOMAIN dirs :
        /\ Len(Components(dirs[i])) >= n
        /\ SubSeq(Components(dirs[i]), 1, n)
               = SubSeq(Components(dirs[1]), 1, n)

\* the length of the longest common leading-component prefix
SharedLength(dirs) ==
    CHOOSE n \in 0..Len(Components(dirs[1])) :
        /\ SharePrefix(dirs, n)
        /\ \A m \in (n + 1)..Len(Components(dirs[1])) : ~SharePrefix(dirs, m)

\* a directory without its first n components
Stripped(dir, n) ==
    Join(SubSeq(Components(dir), n + 1, Len(Components(dir))), Separator)

\* C24 as claimed: with k the length of the longest common prefix, every
\* minimized path is its directory without its first k components, and none
\* is empty; single paths and paths equal to the prefix included
StripsSharedPrefix ==
    probe.done
        => \A i \in DOMAIN probe.dirs :
               /\ probe.result[i]
                      = Stripped(probe.dirs[i], SharedLength(probe.dirs))
               /\ probe.result[i] # <<>>

\* C24 as amended: every directory with more than k components loses
\* exactly its first k; a directory of exactly k components (a single path,
\* or the shared prefix itself) is shown as its last component; no minimized
\* path is empty
StripsSharedPrefixOrKeepsLast ==
    probe.done
        => LET k == SharedLength(probe.dirs)
           IN  /\ Len(probe.result) = Len(probe.dirs)
               /\ \A i \in DOMAIN probe.dirs :
                      LET c == Components(probe.dirs[i])
                      IN  /\ Len(c) > k
                              => probe.result[i] = Stripped(probe.dirs[i], k)
                          /\ Len(c) = k => probe.result[i] = c[Len(c)]
                          /\ probe.result[i] # <<>>

\* C24 witness: a repository nested in another one, the outer directory
\* being the shared prefix
NestedPrefixMinimized ==
    /\ probe.done
    /\ probe.dirs = << <<"b">>, <<"b", "/", "a">> >>
    /\ probe.result = << <<"b">>, <<"a">> >>

\* C25: pairwise distinct directories have pairwise distinct minimized
\* paths, nested repositories included
MinimalPathsDistinct ==
    (/\ probe.done
     /\ \A i, j \in DOMAIN probe.dirs :
            i # j => probe.dirs[i] # probe.dirs[j])
        => \A i, j \in DOMAIN probe.result :
               i # j => probe.result[i] # probe.result[j]

(***************************************************************************)
(* hand-off, detail view and errors in the running program                  *)
(***************************************************************************)
\* C26: every directory requested with ctrl+d is written to /tmp/qgh_cd
\* before the program terminates, whatever keys are handled between the key
\* press and its changeDirMsg: the program never ends with a request for
\* which nothing was written
ChangeDirServedBeforeExit ==
    quit => \A path \in pendingCd :
                \E i \in DOMAIN cdFile : cdFile[i] = path

FetchFailureContained ==
    [][/\ last'.ev = "fetchFailed"
            => /\ ~loadingPRs'
               /\ prLoadError' # ""
               /\ UNCHANGED <<repoDetails, repos, filteredRepos, prCache>>
               /\ ~quit'
       /\ (last'.ev = "enter" /\ currentView = listView
                              /\ currentView' = detailView)
            => prLoadError' = ""]_vars

\* C28 witness: the fetch has just failed while the loading flag was set
FetchJustFailed ==
    /\ last.ev = "fetchFailed"
    /\ prLoadError = FetchError
    /\ ~loadingPRs
    /\ ~quit

\* C29: a cache load that completes with an error leaves a cache marked
\* loaded that holds no pull request, runs the filter against it (so every
\* listed repository counts 0), leaves no load in flight and does not end the
\* program; once no load is in flight none is issued again
CacheFailureYieldsEmptyCache ==
    [][/\ last'.ev = "cacheFailed"
            => /\ CacheLoaded(prCache')
               /\ Deref(prCache').allPRs = <<>>
               /\ DOMAIN Deref(prCache').prsByRepo = {}
               /\ filterRepos(prCache', searchInput, prMode)
               /\ \A j \in DOMAIN filteredRepos' : filteredRepos'[j].PRCount = 0
               /\ ~pendingCache'
               /\ UNCHANGED pendingFetch
               /\ ~quit'
       /\ ~pendingCache => ~pendingCache']_vars

\* C29 witness: the load has just failed and the list shows the repositories
\* against the empty cache
CacheJustFailed ==
    /\ last.ev = "cacheFailed"
    /\ CacheLoaded(prCache)
    /\ Deref(prCache).allPRs = <<>>
    /\ filteredRepos # <<>>
    /\ ~pendingCache
    /\ ~quit

\* C30: with a non-empty list pgdown puts the cursor on the smaller of
\* cursor + capacity and the last index, pgup on the larger of
\* cursor - capacity and 0, the capacity being max(1, height - 12) over the
\* filtered list in List and max(1, height - 13) over the URL row plus the
\* pull-request rows in Detail; the scroll offset then follows by the rule of
\* the single-line keys
PageJumpClamped ==
    [][/\ (last'.ev = "pgdown" /\ currentView = listView
                               /\ Len(filteredRepos) > 0)
            => LET cap  == IF terminalHeight - ListChrome > 1
                           THEN terminalHeight - ListChrome ELSE 1
                   end  == Len(filteredRepos) - 1
               IN  /\ cursor' = IF cursor + cap < end
                                THEN cursor + cap ELSE end
                   /\ scrollOffset' = scrollDown(cursor', scrollOffset, cap)
       /\ (last'.ev = "pgup" /\ currentView = listView
                             /\ Len(filteredRepos) > 0)
            => LET cap == IF terminalHeight - ListChrome > 1
                          THEN terminalHeight - ListChrome ELSE 1
               IN  /\ cursor' = IF cursor - cap > 0 THEN cursor - cap ELSE 0
                   /\ scrollOffset' = scrollUp(cursor', scrollOffset)
       /\ (last'.ev = "pgdown" /\ currentView = detailView)
            => LET cap  == IF terminalHeight - DetailChrome > 1
                           THEN terminalHeight - DetailChrome ELSE 1
                   end  == Len(repoDetails)
               IN  /\ detailCursor' = IF detailCursor + cap < end
                                      THEN detailCursor + cap ELSE end
                   /\ detailScrollOffset' =
                          scrollDown(detailCursor', detailScrollOffset, cap)
       /\ (last'.ev = "pgup" /\ currentView = detailView)
            => LET cap == IF terminalHeight - DetailChrome > 1
                          THEN terminalHeight - DetailChrome ELSE 1
               IN  /\ detailCursor' = IF detailCursor - cap > 0
                                      THEN detailCursor - cap ELSE 0
                   /\ detailScrollOffset' =
                          scrollUp(detailCursor', detailScrollOffset)]_vars

\* C30 witness: a page jump down ended on the last row of the list and the
\* window followed the cursor
PageJumpCutAtEnd ==
    /\ last.ev = "pgdown"
    /\ last.view = listView
    /\ cursor = Len(filteredRepos) - 1
    /\ cursor > 0
    /\ scrollOffset > 0

(***************************************************************************)
(* the scroll window, the selection and the lists across events            *)
(***************************************************************************)
\* C31: after a move down (a line that moved the cursor, or a page) the
\* scroll offset is unchanged if the new cursor is below offset + capacity
\* and is cursor - capacity + 1 otherwise; after a move up it is unchanged if
\* the new cursor is at or after the offset and is the cursor otherwise
ScrollFollowsMinimally ==
    [][/\ (currentView = listView
            /\ (last'.ev = "pgdown" \/ (last'.ev = "down" /\ cursor' # cursor)))
            => LET cap == listVisibleHeight(terminalHeight)
               IN  scrollOffset' = IF cursor' < scrollOffset + cap
                                   THEN scrollOffset ELSE cursor' - cap + 1
       /\ (currentView = listView
            /\ (last'.ev = "pgup" \/ (last'.ev = "up" /\ cursor' # cursor)))
            => scrollOffset' = IF cursor' >= scrollOffset
                               THEN scrollOffset ELSE cursor'
       /\ (currentView = detailView
            /\ (last'.ev = "pgdown"
                  \/ (last'.ev = "down" /\ detailCursor' # detailCursor)))
            => LET cap == detailVisibleHeight(terminalHeight)
               IN  detailScrollOffset' =
                       IF detailCursor' < detailScrollOffset + cap
                       THEN detailScrollOffset ELSE detailCursor' - cap + 1
       /\ (currentView = detailView
            /\ (last'.ev = "pgup"
                  \/ (last'.ev = "up" /\ detailCursor' # detailCursor)))
            => detailScrollOffset' = IF detailCursor' >= detailScrollOffset
                                     THEN detailScrollOffset
                                     ELSE detailCursor']_vars

\* C31 witness: a line down pushed the window so that the cursor is on its
\* last row
WindowPushedDown ==
    /\ last.ev = "down"
    /\ last.view = listView
    /\ scrollOffset > 0
    /\ scrollOffset = cursor - listVisibleHeight(terminalHeight) + 1
    /\ listVisibleHeight(terminalHeight) > 1

\* C32: down with the cursor on the last item and up with the cursor on the
\* first item change no field of the model, in List and in Detail
EdgeMoveChangesNothing ==
    [][/\ (last'.ev = "down" /\ currentView = listView
            /\ filteredRepos # <<>> /\ cursor = Len(filteredRepos) - 1)
            => UNCHANGED modelVars
       /\ (last'.ev = "up" /\ currentView = listView
            /\ filteredRepos # <<>> /\ cursor = 0)
            => UNCHANGED modelVars
       /\ (last'.ev = "down" /\ currentView = detailView
            /\ detailCursor = Len(repoDetails))
            => UNCHANGED modelVars
       /\ (last'.ev = "up" /\ currentView = detailView /\ detailCursor = 0)
            => UNCHANGED modelVars]_vars

\* C32 witness: down was pressed in a detail view whose only row is the URL
\* row, and the cursor stayed on it
DownOnOnlyRow ==
    /\ last.ev = "down"
    /\ last.view = detailView
    /\ currentView = detailView
    /\ repoDetails = <<>>
    /\ detailCursor = 0

\* C33: at every terminal height, 0 and heights below the reserved lines
\* included, the capacity of the List handlers is max(1, height - 12) and
\* that of the Detail handlers max(1, height - 13), both at least 1, and the
\* renderer of each view computes the same capacity as its handlers
CapacityFlooredAndShared ==
    LET h == terminalHeight
    IN  /\ listVisibleHeight(h) >= 1
        /\ detailVisibleHeight(h) >= 1
        /\ \/ listVisibleHeight(h) = h - ListChrome
           \/ listVisibleHeight(h) = 1 /\ h - ListChrome <= 1
        /\ \/ detailVisibleHeight(h) = h - DetailChrome
           \/ detailVisibleHeight(h) = 1 /\ h - DetailChrome <= 1
        /\ renderListVisibleHeight(h) = listVisibleHeight(h)
        /\ renderDetailVisibleHeight(h) = detailVisibleHeight(h)

\* C33 witness: at a height below the reserved lines a line down moved the
\* window by the floored capacity of one row
FlooredCapacityUsed ==
    /\ terminalHeight < ListChrome
    /\ last.ev = "down"
    /\ last.view = listView
    /\ scrollOffset = cursor
    /\ scrollOffset > 0

\* C34: no event changes the authoritative repository list: its length, its
\* order and every field of every record stay as they were at startup
ReposNeverChange ==
    [][repos' = repos]_vars

\* C34 witness: a filter pass has annotated a copy with a count and matching
\* pull requests that the authoritative record does not carry
CopyAnnotated ==
    \E i \in DOMAIN repos, j \in DOMAIN filteredRepos :
        /\ filteredRepos[j].Directory = repos[i].Directory
        /\ filteredRepos[j].PRCount > repos[i].PRCount
        /\ filteredRepos[j].MatchingPRs # <<>>
        /\ repos[i].MatchingPRs = <<>>

\* C35 as claimed: in every reachable state the filtered list holds the
\* repositories, in the order, that the filter gives for the current
\* repository list, search text, mode flag and PR cache
FilteredListIsFilterResult ==
    LET result == filterResult(repos, prCache, searchInput, prMode)
    IN  /\ Len(filteredRepos) = Len(result)
        /\ \A i \in DOMAIN filteredRepos :
               filteredRepos[i].Directory = result[i].Directory

\* C35 as amended: the same, except in a run started in the list view with
\* the PR-mode flag and a search string, where the filtered list is the whole
\* repository list for as long as the cache has not loaded and the search
\* text has not been edited
FilteredListIsFilterResultOnceRun ==
    \/ FilteredListIsFilterResult
    \/ /\ filteredRepos = repos
       /\ ~startedInDetailView
       /\ prMode
       /\ ~CacheLoaded(prCache)
       /\ searchInput \in InitialSearches \ {<<>>}

\* C35 witness: the cache has loaded in PR mode with a search text and the
\* filter has left a proper part of the repository list
CacheLoadFiltered ==
    /\ last.ev = "cacheLoaded"
    /\ prMode
    /\ searchInput # <<>>
    /\ filteredRepos # <<>>
    /\ Len(filteredRepos) < Len(repos)

\* C36: in every reachable state the detail cursor is within
\* [0, len(repoDetails)] and the detail scroll offset within
\* [0, detailCursor], so enter in Detail finds the row of its cursor
DetailCursorWithinRows ==
    /\ 0 <= detailCursor
    /\ detailCursor <= Len(repoDetails)
    /\ 0 <= detailScrollOffset
    /\ detailScrollOffset <= detailCursor

\* C36 witness: the fetch of the initial detail view has delivered its list,
\* the user has moved to its last row and the window has followed
DetailScrolledToLastRow ==
    /\ currentView = detailView
    /\ startedInDetailView
    /\ pendingFetch = <<>>
    /\ repoDetails # <<>>
    /\ detailCursor = Len(repoDetails)
    /\ detailScrollOffset > 0

\* C37: in every reachable state the view is Detail iff a repository is
\* selected, so every step into List has cleared the selection and every
\* step into Detail has set it
DetailIffSelected ==
    (currentView = detailView) <=> (selectedRepo # Nil)

\* C37 witness: enter has just taken the list item under the cursor as the
\* selection of the detail view
SelectedByEnter ==
    /\ last.ev = "enter"
    /\ last.view = listView
    /\ currentView = detailView
    /\ selectedRepo = Ptr(filteredRepos[cursor + 1])

\* C38: whenever the loading flag is set a fetch has been issued and not yet
\* delivered; no step sets the flag again once it is clear; and, the
\* completion of the fetch being delivered, the flag is eventually clear
\* unless the program has quit
LoadingHasFetchAndEnds ==
    /\ [](loadingPRs => pendingFetch # <<>>)
    /\ [][~loadingPRs => ~loadingPRs']_vars
    /\ <>(~loadingPRs \/ quit)

\* C38 witness: the delivery of the fetch of the initial detail view has
\* cleared the loading flag
LoadingEndedByDelivery ==
    /\ last.ev = "fetchLoaded"
    /\ startedInDetailView
    /\ currentView = detailView
    /\ ~loadingPRs
    /\ pendingFetch = <<>>

\* C39: in a run started in List, enter on a non-empty list leads to Detail
\* and an esc handled right after it leads back to List, and neither step
\* changes the search text, the mode flag, the filtered list, the cursor or
\* the scroll offset
EnterThenEscRestoresList ==
    [][/\ (~startedInDetailView /\ last'.ev = "enter"
             /\ currentView = listView /\ filteredRepos # <<>>)
            => /\ currentView' = detailView
               /\ UNCHANGED <<searchInput, prMode, filteredRepos, cursor,
                              scrollOffset>>
       /\ (~startedInDetailView /\ last'.ev = "esc"
             /\ currentView = detailView
             /\ last.ev = "enter" /\ last.view = listView)
            => /\ currentView' = listView
               /\ ~quit'
               /\ UNCHANGED <<searchInput, prMode, filteredRepos, cursor,
                              scrollOffset>>]_vars

\* C39 witness: esc has led back from a detail view entered with enter to a
\* filtered, scrolled list with the cursor off the first row
BackOnScrolledList ==
    /\ ~startedInDetailView
    /\ last.ev = "esc"
    /\ last.view = detailView
    /\ last.entry = "enter"
    /\ currentView = listView
    /\ searchInput # <<>>
    /\ cursor > 0
    /\ scrollOffset > 0

\* C40: in every reachable state the filtered list is a subsequence of the
\* repository list: its items are items of the repository list at strictly
\* increasing positions, with the same directory, origin and GitHub URL
FilteredIsSubsequence ==
    \E at \in [DOMAIN filteredRepos -> DOMAIN repos] :
        /\ \A i, j \in DOMAIN filteredRepos : i < j => at[i] < at[j]
        /\ \A i \in DOMAIN filteredRepos :
               /\ filteredRepos[i].Directory = repos[at[i]].Directory
               /\ filteredRepos[i].Origin = repos[at[i]].Origin
               /\ filteredRepos[i].GitHubURL = repos[at[i]].GitHubURL

\* C40 witness: a typed character has left several, but not all, of the
\* repositories in local mode
SeveralKeptInOrder ==
    /\ last.ev = "char"
    /\ ~prMode
    /\ Len(filteredRepos) > 1
    /\ Len(filteredRepos) < Len(repos)

====
